---- MODULE Spec2Model ----
(***************************************************************************)
(* A model of the Simulator class of agnostic_simulator/simulator.py       *)
(* (construction, simulate, get_expectation_value and its helpers) and of  *)
(* the IonQ JSON translator of tangelo/backendbuddy.                       *)
(*                                                                         *)
(* Quantum registers are modelled exactly for circuits over X, Z, H and    *)
(* MEASURE: a state vector is a record [amps, h] whose amplitude of basis  *)
(* index i is amps[i+1] / sqrt(2)^h.  Bit q of a basis index is the state  *)
(* of qubit q (the "msq_first" printing order of the three amplitude       *)
(* backends).  Bitstrings are sequences of 0/1, a frequency is a reduced   *)
(* fraction <<numerator, denominator>>.                                    *)
(***************************************************************************)
EXTENDS Integers, Sequences, FiniteSets, TLC

VARIABLES phase, sim, lastCall

vars == <<phase, sim, lastCall>>

\* Bounds of the model.
MaxWidth == 2
MaxGates == 2
MaxShots == 2
MaxTerms == 1

\* Python's None: as a string where the other values are strings, as -1 for
\* n_shots, as the vector of no amplitudes for a state vector and as the
\* argument of kind None for initial_statevector.
None == "None"

NoShots == 0 - 1

NoVector == [amps |-> <<>>, h |-> 0]

NoInitialStatevector == [kind |-> None, vec |-> NoVector]

(***************************************************************************)
(* Numbers and bitstrings.                                                 *)
(***************************************************************************)
RECURSIVE Pow2(_)
Pow2(n) == IF n <= 0 THEN 1 ELSE 2 * Pow2(n - 1)

RECURSIVE Gcd(_, _)
Gcd(a, b) == IF b = 0 THEN a ELSE Gcd(b, a % b)

Abs(n) == IF n < 0 THEN 0 - n ELSE n

\* The float n/d, as a reduced fraction (d > 0).
Frac(n, d) == LET g == Gcd(Abs(n), d)
              IN IF n < 0 THEN <<0 - (Abs(n) \div g), d \div g>> ELSE <<n \div g, d \div g>>

FAdd(a, b) == Frac(a[1] * b[2] + b[1] * a[2], a[2] * b[2])

FNeg(a) == <<0 - a[1], a[2]>>

Bit(i, q) == (i \div Pow2(q)) % 2

Flip(i, q) == IF Bit(i, q) = 0 THEN i + Pow2(q) ELSE i - Pow2(q)

\* bin(i).split('b')[-1]: the binary digits of i, most significant first.
RECURSIVE Bin(_)
Bin(i) == IF i < 2 THEN <<i>> ELSE Append(Bin(i \div 2), i % 2)

\* "0" * n (the empty string when n <= 0).
Zeros(n) == [k \in 1..n |-> 0]

\* s[::-1]
Reverse(s) == [k \in 1..Len(s) |-> s[Len(s) + 1 - k]]

\* int(s, 2)
RECURSIVE BinToInt(_)
BinToInt(s) == IF Len(s) = 0 THEN 0
               ELSE 2 * BinToInt(SubSeq(s, 1, Len(s) - 1)) + s[Len(s)]

\* Python truthiness of n_shots (None or an int).
Truthy(x) == x # NoShots /\ x # 0

(***************************************************************************)
(* The capability registry.                                                *)
(***************************************************************************)
Targets == {"qiskit", "qulacs", "projectq", "qdk"}

backend_info ==
  [qiskit   |-> [statevector_available |-> TRUE,  statevector_order |-> "msq_first", noisy_simulation |-> TRUE],
   qulacs   |-> [statevector_available |-> TRUE,  statevector_order |-> "msq_first", noisy_simulation |-> TRUE],
   projectq |-> [statevector_available |-> TRUE,  statevector_order |-> "msq_first", noisy_simulation |-> FALSE],
   qdk      |-> [statevector_available |-> FALSE, statevector_order |-> None,        noisy_simulation |-> FALSE]]

\* The attributes __init__ copies onto the instance with setattr.
statevector_available(self) == self.statevector_available
statevector_order(self) == self.statevector_order
noisy_simulation(self) == self.noisy_simulation

(***************************************************************************)
(* Circuits: a width and a sequence of gates [name, target].               *)
(***************************************************************************)
Gate(name, target) == [name |-> name, target |-> target]

Circuit(gates, n_qubits) == [width |-> n_qubits, gates |-> gates]

size(c) == Len(c.gates)

is_mixed_state(c) == \E k \in 1..Len(c.gates) : c.gates[k].name = "MEASURE"

(***************************************************************************)
(* State vectors and the backends' gate semantics.                         *)
(***************************************************************************)
Indices(n) == 0..(Pow2(n) - 1)

OneHot(n, i) == [amps |-> [k \in 1..Pow2(n) |-> IF k = i + 1 THEN 1 ELSE 0], h |-> 0]

AllZeroState(n) == OneHot(n, 0)

NQubits(v) == CHOOSE n \in 0..(MaxWidth + 2) : Pow2(n) = Len(v.amps)

\* Amplitudes are kept in lowest terms: a common factor 2 cancels two H's.
RECURSIVE Normalise(_)
Normalise(v) ==
  IF v.h >= 2 /\ \A k \in 1..Len(v.amps) : v.amps[k] % 2 = 0
  THEN Normalise([amps |-> [k \in 1..Len(v.amps) |-> v.amps[k] \div 2], h |-> v.h - 2])
  ELSE v

ApplyGate(v, g) ==
  LET a == v.amps
      q == g.target
  IN CASE g.name = "X" ->
            [v EXCEPT !.amps = [k \in 1..Len(a) |-> a[Flip(k - 1, q) + 1]]]
       [] g.name = "Z" ->
            [v EXCEPT !.amps = [k \in 1..Len(a) |-> IF Bit(k - 1, q) = 1 THEN 0 - a[k] ELSE a[k]]]
       [] g.name = "H" ->
            Normalise([amps |-> [k \in 1..Len(a) |->
                                   IF Bit(k - 1, q) = 0 THEN a[k] + a[Flip(k - 1, q) + 1]
                                   ELSE a[Flip(k - 1, q) + 1] - a[k]],
                       h |-> v.h + 1])
       [] OTHER -> v

\* The squared modulus of amplitude i, abs(amplitude)**2.
Probability(v, i) == Frac(v.amps[i + 1] * v.amps[i + 1], Pow2(v.h))

Support(v) == {i \in 0..(Len(v.amps) - 1) : v.amps[i + 1] # 0}

\* Measuring qubit q with outcome b (not renormalised: after a collapse only
\* the support of the register is used).
Collapse(v, q, b) ==
  [v EXCEPT !.amps = [k \in 1..Len(v.amps) |-> IF Bit(k - 1, q) = b THEN v.amps[k] ELSE 0]]

\* The registers one noiseless execution of the gates can leave.
RECURSIVE ExecGates(_, _)
ExecGates(v, gates) ==
  IF Len(gates) = 0 THEN {v}
  ELSE LET g == Head(gates)
           next == IF g.name = "MEASURE"
                   THEN {Collapse(v, g.target, b) : b \in {Bit(i, g.target) : i \in Support(v)}}
                   ELSE {ApplyGate(v, g)}
       IN UNION {ExecGates(w, Tail(gates)) : w \in next}

\* The registers one execution can leave: a noise model is opaque, under it
\* any basis state can come out.
ExecCircuit(v, c, noisy) ==
  IF noisy THEN {OneHot(NQubits(v), i) : i \in Indices(NQubits(v))}
  ELSE ExecGates(v, c.gates)

(***************************************************************************)
(* Frequency normalisation.                                                *)
(***************************************************************************)
\* (frequency - self.freq_threshold) >= 0. with freq_threshold = 1e-10: every
\* probability of the model is a multiple of 2^-h with 2^h far below 1e10,
\* so a probability reaches the threshold exactly when it is not zero.
AtLeastThreshold(p) == p[1] > 0

\* __int_to_binstr without the reversal for msq_first.
int_to_binstr_unreversed(self, i, n_qubits) ==
  LET bs == Bin(i)
  IN Zeros(n_qubits - Len(bs)) \o bs

\* Simulator.__int_to_binstr
int_to_binstr(self, i, n_qubits) ==
  LET bs == Bin(i)
      state_binstr == Zeros(n_qubits - Len(bs)) \o bs
  IN IF statevector_order(self) = "msq_first" THEN Reverse(state_binstr) ELSE state_binstr

Range(s) == {s[k] : k \in 1..Len(s)}

\* {key(k): v / n_shots for k, v in Counter(samples).items()}
CounterFrequencies(samples, n_shots) ==
  [k \in Range(samples) |->
     Frac(Cardinality({j \in 1..Len(samples) : samples[j] = k}), n_shots)]

\* _statevector_to_frequencies recovering the index of a key with int(k, 2),
\* the reversal of line 430 left out.
statevector_to_frequencies_unreversed(self, statevector) ==
  LET n_qubits == NQubits(statevector)
      kept == {i \in Indices(n_qubits) : AtLeastThreshold(Probability(statevector, i))}
      keys == {int_to_binstr(self, i, n_qubits) : i \in kept}
      last(k) == CHOOSE i \in kept : /\ int_to_binstr(self, i, n_qubits) = k
                                     /\ \A j \in kept : int_to_binstr(self, j, n_qubits) = k => j <= i
      frequencies == [k \in keys |-> Probability(statevector, last(k))]
      xk == {BinToInt(k) : k \in keys}
  IN IF ~Truthy(self.n_shots) THEN {frequencies}
     ELSE {CounterFrequencies([j \in 1..self.n_shots |-> int_to_binstr(self, samples[j], n_qubits)],
                              self.n_shots)
             : samples \in [1..self.n_shots -> xk]}

\* Simulator._statevector_to_frequencies: the tables it can return (one when
\* n_shots is not set, one per drawing of n_shots samples otherwise).
statevector_to_frequencies(self, statevector) ==
  LET n_qubits == NQubits(statevector)
      kept == {i \in Indices(n_qubits) : AtLeastThreshold(Probability(statevector, i))}
      keys == {int_to_binstr(self, i, n_qubits) : i \in kept}
      \* a later index overwrites an earlier one stored under the same key
      last(k) == CHOOSE i \in kept : /\ int_to_binstr(self, i, n_qubits) = k
                                     /\ \A j \in kept : int_to_binstr(self, j, n_qubits) = k => j <= i
      frequencies == [k \in keys |-> Probability(statevector, last(k))]
      xk == {BinToInt(Reverse(k)) : k \in keys}
  IN IF ~Truthy(self.n_shots) THEN {frequencies}
     ELSE {CounterFrequencies([j \in 1..self.n_shots |-> int_to_binstr(self, samples[j], n_qubits)],
                              self.n_shots)
             : samples \in [1..self.n_shots -> xk]}

(***************************************************************************)
(* Simulator.simulate.  A result is a record: raised (None or the error),  *)
(* the returned pair (frequencies, statevector), the value of              *)
(* self._current_state afterwards and the trace of backend operations,     *)
(* each with the register it leaves.                                       *)
(***************************************************************************)
Ev(ev, reg) == [ev |-> ev, reg |-> reg]

Raise(self, err, trace) ==
  [raised |-> err, frequencies |-> <<>>, statevector |-> NoVector,
   current_state |-> self.current_state, trace |-> trace]

Return(frequencies, statevector, current_state, trace) ==
  [raised |-> None, frequencies |-> frequencies, statevector |-> statevector,
   current_state |-> current_state, trace |-> trace]

\* bool(initial_statevector): False for None; for a list, whether it has an
\* element; for a numpy array, False when empty, the truth of its element
\* when it has one, and an error ("raises") when it has more.
TruthValue(initial_statevector) ==
  LET amps == initial_statevector.vec.amps
  IN IF initial_statevector.kind = None THEN "False"
     ELSE IF Len(amps) = 0 THEN "False"
     ELSE IF initial_statevector.kind = "list" THEN "True"
     ELSE IF Len(amps) = 1 THEN (IF amps[1] # 0 THEN "True" ELSE "False")
     ELSE "raises"

\* The register the per-shot loops reset to: `if initial_statevector:` takes
\* the truth value of the argument; loaded tells that the argument is loaded,
\* not the zero state set.
ResetRegister(width, initial_statevector) ==
  LET truth == TruthValue(initial_statevector)
  IN IF truth = "raises"
     THEN [raised |-> "AmbiguousTruthValueError", reg |-> NoVector, loaded |-> FALSE]
     ELSE IF truth = "True"
     THEN [raised |-> None, reg |-> initial_statevector.vec, loaded |-> TRUE]
     ELSE [raised |-> None, reg |-> AllZeroState(width), loaded |-> FALSE]

\* One repetition of the per-shot loops (qulacs 119-125, projectq 194-203)
\* started from run r: execute the circuit, draw one sample, reset.
OneShot(r, c, noisy, initial_statevector, loads) ==
  LET reset == ResetRegister(c.width, initial_statevector)
      \* a load the backend ignores leaves the register as the shot left it
      kept == reset.loaded /\ ~loads
  IN {[reg |-> IF reset.raised = None /\ ~kept THEN reset.reg ELSE post,
       samples |-> Append(r.samples, s),
       raised |-> reset.raised,
       trace |-> r.trace \o <<Ev("exec", post), Ev("sample", OneHot(NQubits(post), s))>>
                 \o (IF reset.raised = None /\ ~kept THEN <<Ev("reset", reset.reg)>> ELSE <<>>)]
        : <<post, s>> \in {<<w, i>> \in ExecCircuit(r.reg, c, noisy) \X Indices(NQubits(r.reg)) :
                              i \in Support(w)}}

RECURSIVE ShotLoop(_, _, _, _, _, _)
ShotLoop(runs, shots, c, noisy, initial_statevector, loads) ==
  IF shots = 0 THEN runs
  ELSE ShotLoop(UNION {IF r.raised = None THEN OneShot(r, c, noisy, initial_statevector, loads)
                       ELSE {r}
                         : r \in runs},
                shots - 1, c, noisy, initial_statevector, loads)

\* The register after allocation and the optional load of initial_statevector.
InitialRun(c, initial_statevector) ==
  IF initial_statevector.kind = None
  THEN [reg |-> AllZeroState(c.width), samples |-> <<>>, raised |-> None,
        trace |-> <<Ev("init", AllZeroState(c.width))>>]
  ELSE [reg |-> initial_statevector.vec, samples |-> <<>>, raised |-> None,
        trace |-> <<Ev("init", AllZeroState(c.width)), Ev("load", initial_statevector.vec)>>]

\* initial_statevector holds the amplitudes of another number of qubits than
\* the circuit has (get_expectation_value passes the prepared state to the
\* basis-rotation circuit of a term, whose width is that of the term).
Mismatch(c, initial_statevector) ==
  initial_statevector.kind # None /\ Len(initial_statevector.vec.amps) # Pow2(c.width)

\* The only register a circuit without MEASURE and without noise leaves.
ExecOnce(v, c) == CHOOSE w \in ExecGates(v, c.gates) : TRUE

\* The qulacs branch; loads tells whether state.load takes the vector (it
\* does when the sizes match) or leaves the register as it is.
RunQulacsLoading(self, c, return_statevector, initial_statevector, loads) ==
  LET start == InitialRun(c, IF loads THEN initial_statevector ELSE NoInitialStatevector)
      sampling == is_mixed_state(c) \/ self.noise_model # None
  IN IF sampling
     THEN IF self.n_shots = NoShots THEN {Raise(self, "TypeError", start.trace)}
          ELSE {IF r.raised # None THEN Raise(self, r.raised, r.trace)
                ELSE Return(CounterFrequencies(
                              [j \in 1..Len(r.samples) |-> int_to_binstr(self, r.samples[j], c.width)],
                              self.n_shots),
                            NoVector, self.current_state, r.trace)
                  : r \in ShotLoop({start}, self.n_shots, c, self.noise_model # None,
                                   initial_statevector, loads)}
     ELSE LET state == ExecOnce(start.reg, c)
              trace == start.trace \o <<Ev("exec", state), Ev("read", state)>>
          IN {Return(f, IF return_statevector THEN state ELSE NoVector, state, trace)
                : f \in statevector_to_frequencies(self, state)}

\* qulacs on a circuit and an initial state of matching sizes.
RunQulacs(self, c, return_statevector, initial_statevector) ==
  RunQulacsLoading(self, c, return_statevector, initial_statevector, TRUE)

\* QuantumState.load of a vector of the wrong length: the library either
\* raises or reports the error and leaves the register as it is, depending
\* on its version; in the loop the code still tests and loads the argument.
SimulateQulacs(self, c, return_statevector, initial_statevector) ==
  IF Mismatch(c, initial_statevector)
  THEN {Raise(self, "BackendError", <<Ev("init", AllZeroState(c.width))>>)}
       \cup RunQulacsLoading(self, c, return_statevector, initial_statevector, FALSE)
  ELSE RunQulacs(self, c, return_statevector, initial_statevector)

\* math.log2(len(initial_statevector)) of an empty vector raises ValueError
\* (qiskit line 144, projectq line 184).
EmptyVector(initial_statevector) ==
  initial_statevector.kind # None /\ Len(initial_statevector.vec.amps) = 0

\* The bitstring of basis index i with qubit 0 first.
LsqKey(i, n) == [q \in 1..n |-> Bit(i, q - 1)]

\* The basis indices one execution followed by a measurement of every qubit
\* can give.
Outcomes(v, c, noisy) == UNION {Support(w) : w \in ExecCircuit(v, c, noisy)}

\* The backend rejects a run of no shots (or the division by n_shots fails).
\* Only reached when n_shots was reassigned after construction.
BatchFrequencies(self, v, c, noisy) ==
  {CounterFrequencies([j \in 1..self.n_shots |-> LsqKey(samples[j], c.width)], self.n_shots)
     : samples \in [1..self.n_shots -> Outcomes(v, c, noisy)]}

SimulateQiskit(self, c, return_statevector, initial_statevector) ==
  IF initial_statevector.kind # None /\ self.noise_model # None
  THEN {Raise(self, "IncompatibleInitialStateError", <<>>)}
  ELSE IF EmptyVector(initial_statevector)
  THEN {Raise(self, "ValueError", <<>>)}
  ELSE IF Mismatch(c, initial_statevector)
  THEN {Raise(self, "BackendError", <<>>)}
  ELSE LET start == InitialRun(c, initial_statevector)
       IN IF self.noise_model # None \/ is_mixed_state(c)
          THEN IF ~Truthy(self.n_shots) THEN {Raise(self, "BackendShotsError", start.trace)}
               ELSE {Return(f, NoVector, self.current_state, start.trace \o <<Ev("run", start.reg)>>)
                       : f \in BatchFrequencies(self, start.reg, c, self.noise_model # None)}
          ELSE LET state == ExecOnce(start.reg, c)
                   trace == start.trace \o <<Ev("exec", state), Ev("read", state)>>
               IN {Return(f, IF return_statevector THEN state ELSE NoVector, state, trace)
                     : f \in statevector_to_frequencies(self, state)}

\* projectq allocates the register for the qubits of initial_statevector when
\* it is given (line 184), for those of the circuit otherwise (line 188).
InitialRunProjectq(c, initial_statevector) ==
  IF initial_statevector.kind = None THEN InitialRun(c, initial_statevector)
  ELSE [reg |-> initial_statevector.vec, samples |-> <<>>, raised |-> None,
        trace |-> <<Ev("init", AllZeroState(NQubits(initial_statevector.vec))),
                    Ev("load", initial_statevector.vec)>>]

\* exec of the gate lines indexes Qureg: a gate on a qubit the register
\* lacks fails there.
GateBeyondRegister(c, reg) ==
  \E k \in 1..Len(c.gates) : c.gates[k].target >= NQubits(reg)

\* The sizes of circuit and initial_statevector are never compared: the
\* circuit runs on the register allocated, whatever its width.
SimulateProjectq(self, c, return_statevector, initial_statevector) ==
  LET start == InitialRunProjectq(c, initial_statevector)
  IN IF EmptyVector(initial_statevector)
     THEN {Raise(self, "ValueError", <<>>)}
     ELSE IF GateBeyondRegister(c, start.reg)
     THEN {Raise(self, "IndexError", start.trace)}
     ELSE IF is_mixed_state(c)
     THEN {IF r.raised # None THEN Raise(self, r.raised, r.trace)
           ELSE Return(CounterFrequencies(
                         [j \in 1..Len(r.samples) |-> LsqKey(r.samples[j], NQubits(start.reg))],
                         self.n_shots),
                       NoVector, self.current_state, r.trace)
             : r \in ShotLoop({start}, self.n_shots, c, FALSE, initial_statevector, TRUE)}
     ELSE LET state == ExecOnce(start.reg, c)
              \* All(Measure) after the reads collapses the register onto outcome i
              trace(i) == start.trace \o <<Ev("exec", state), Ev("read", state), Ev("read", state),
                                           Ev("measure", OneHot(NQubits(state), i))>>
          IN {Return(fi[1], IF return_statevector THEN state ELSE NoVector, state, trace(fi[2]))
                : fi \in statevector_to_frequencies([self EXCEPT !.current_state = state], state)
                          \X Support(state)}

\* The Q# operation is generated from the circuit alone: neither the noise
\* model nor initial_statevector reaches it.
SimulateQdk(self, c, return_statevector, initial_statevector) ==
  LET reg == AllZeroState(c.width)
  IN IF ~Truthy(self.n_shots) THEN {Raise(self, "BackendShotsError", <<Ev("init", reg)>>)}
     ELSE {Return(f, NoVector, self.current_state, <<Ev("init", reg), Ev("run", reg)>>)
             : f \in BatchFrequencies(self, reg, c, FALSE)}

\* The backend dispatch of simulate.
Dispatch(self, source_circuit, return_statevector, initial_statevector) ==
  CASE self.target = "qulacs" ->
         SimulateQulacs(self, source_circuit, return_statevector, initial_statevector)
    [] self.target = "qiskit" ->
         SimulateQiskit(self, source_circuit, return_statevector, initial_statevector)
    [] self.target = "projectq" ->
         SimulateProjectq(self, source_circuit, return_statevector, initial_statevector)
    [] self.target = "qdk" ->
         SimulateQdk(self, source_circuit, return_statevector, initial_statevector)

\* simulate without the shortcut for a circuit of no gates.
simulate_without_shortcut(self, source_circuit, return_statevector, initial_statevector) ==
  IF is_mixed_state(source_circuit) /\ ~Truthy(self.n_shots)
  THEN {Raise(self, "MixedStateRequiresShotsError", <<>>)}
  ELSE IF source_circuit.width = 0
  THEN {Raise(self, "EmptyCircuitWidthError", <<>>)}
  ELSE Dispatch(self, source_circuit, return_statevector, initial_statevector)

\* Simulator.simulate: the results a call can have.
simulate(self, source_circuit, return_statevector, initial_statevector) ==
  IF is_mixed_state(source_circuit) /\ ~Truthy(self.n_shots)
  THEN {Raise(self, "MixedStateRequiresShotsError", <<>>)}
  ELSE IF source_circuit.width = 0
  THEN {Raise(self, "EmptyCircuitWidthError", <<>>)}
  ELSE IF size(source_circuit) = 0
  THEN {Return([k \in {Zeros(source_circuit.width)} |-> <<1, 1>>],
               IF return_statevector THEN AllZeroState(source_circuit.width) ELSE NoVector,
               self.current_state, <<>>)}
  ELSE Dispatch(self, source_circuit, return_statevector, initial_statevector)

(***************************************************************************)
(* Qubit operators.  A term is a sequence of factors [index, pauli] with   *)
(* increasing indices, a qubit operator a sequence of distinct terms (the  *)
(* order of its dictionary), every coefficient being 1.                    *)
(***************************************************************************)
TermIndices(term) == {term[k].index : k \in 1..Len(term)}

SetMax(S) == CHOOSE m \in S : \A x \in S : x <= m

\* helpers.measurement_basis_gates: the rotation of each factor to the
\* computational basis (none for Z).
RECURSIVE measurement_basis_gates(_)
measurement_basis_gates(term) ==
  IF Len(term) = 0 THEN <<>>
  ELSE (IF Head(term).pauli = "X" THEN <<Gate("H", Head(term).index)>> ELSE <<>>)
       \o measurement_basis_gates(Tail(term))

\* Circuit(gates): the width is that of the highest qubit a gate acts on.
CircuitOf(gates) ==
  Circuit(gates, IF Len(gates) = 0 THEN 0
                 ELSE SetMax({gates[k].target : k \in 1..Len(gates)}) + 1)

\* Circuit.__add__
CircuitAdd(c1, c2) ==
  Circuit(c1.gates \o c2.gates, IF c1.width >= c2.width THEN c1.width ELSE c2.width)

RECURSIVE SumOver(_, _)
SumOver(f, S) == IF S = {} THEN <<0, 1>>
                 ELSE LET x == CHOOSE x \in S : TRUE
                      IN FAdd(f[x], SumOver(f, S \ {x}))

\* The one-term estimator taking its entries out of the table as it sums
\* them (popitem): the caller's dictionary is empty afterwards.
get_expectation_value_from_frequencies_oneterm_consuming(term, frequencies) ==
  IF DOMAIN frequencies = {}
  THEN [kind |-> "returned_error", error |-> "ValueError", value |-> <<0, 1>>,
        term |-> term, frequencies |-> frequencies]
  ELSE LET n_qubits == Len(CHOOSE k \in DOMAIN frequencies : TRUE)
           mask == [q \in 1..n_qubits |-> IF (q - 1) \in TermIndices(term) THEN 1 ELSE 0]
           ones(basis_state) == Cardinality({q \in 1..n_qubits : mask[q] = 1 /\ basis_state[q] = 1})
           sample == [basis_state \in DOMAIN frequencies |->
                        IF ones(basis_state) % 2 = 0 THEN frequencies[basis_state]
                        ELSE FNeg(frequencies[basis_state])]
       IN IF \E i \in TermIndices(term) : i >= n_qubits
          THEN [kind |-> "raised", error |-> "IndexError", value |-> <<0, 1>>,
                term |-> term, frequencies |-> frequencies]
          ELSE [kind |-> "value", error |-> None, value |-> SumOver(sample, DOMAIN frequencies),
                term |-> term, frequencies |-> <<>>]

\* Simulator.get_expectation_value_from_frequencies_oneterm: what the call
\* does ("value": returns the scalar, "returned_error": returns a ValueError
\* object, "raised": raises), the scalar, and the two arguments as the call
\* leaves them: lines 382-399 read term and frequencies and assign only to
\* the locals n_qubits, mask, expectation_term and sample.
get_expectation_value_from_frequencies_oneterm(term, frequencies) ==
  IF DOMAIN frequencies = {}
  THEN [kind |-> "returned_error", error |-> "ValueError", value |-> <<0, 1>>,
        term |-> term, frequencies |-> frequencies]
  ELSE LET n_qubits == Len(CHOOSE k \in DOMAIN frequencies : TRUE)
           mask == [q \in 1..n_qubits |-> IF (q - 1) \in TermIndices(term) THEN 1 ELSE 0]
           ones(basis_state) == Cardinality({q \in 1..n_qubits : mask[q] = 1 /\ basis_state[q] = 1})
           sample == [basis_state \in DOMAIN frequencies |->
                        IF ones(basis_state) % 2 = 0 THEN frequencies[basis_state]
                        ELSE FNeg(frequencies[basis_state])]
       IN IF \E i \in TermIndices(term) : i >= n_qubits
          THEN [kind |-> "raised", error |-> "IndexError", value |-> <<0, 1>>,
                term |-> term, frequencies |-> frequencies]
          ELSE [kind |-> "value", error |-> None, value |-> SumOver(sample, DOMAIN frequencies),
                term |-> term, frequencies |-> frequencies]

\* The real part of <a|b> for two vectors of the same number of H's.
Overlap(a, b) ==
  SumOver([i \in 1..Len(a.amps) |-> <<a.amps[i] * b.amps[i], 1>>], 1..Len(a.amps)) [1]

RECURSIVE ApplyTerm(_, _)
ApplyTerm(v, term) ==
  IF Len(term) = 0 THEN v
  ELSE ApplyTerm(ApplyGate(v, Gate(Head(term).pauli, Head(term).index)), Tail(term))

\* <state| term |state>, as the backends' own expectation routines give it.
TermExpectation(state, term) == Frac(Overlap(ApplyTerm(state, term), state), Pow2(state.h))

RECURSIVE NativeExpectation(_, _)
NativeExpectation(state, terms) ==
  IF Len(terms) = 0 THEN <<0, 1>>
  ELSE FAdd(TermExpectation(state, Head(terms)), NativeExpectation(state, Tail(terms)))

InRange(term, n_qubits) == \A i \in TermIndices(term) : i < n_qubits

SelectTerms(terms, n_qubits) == SelectSeq(terms, LAMBDA t : InRange(t, n_qubits))

(***************************************************************************)
(* Simulator.get_expectation_value.  An outcome is a record: raised, the   *)
(* value, self._current_state afterwards, the method chosen, the           *)
(* reductions used and the simulate calls made.                            *)
(***************************************************************************)
SimCall(c, return_statevector, initial_statevector) ==
  [circuit |-> c, return_statevector |-> return_statevector,
   initial_statevector |-> initial_statevector]

StartOutcome(self, method) ==
  [raised |-> None, value |-> <<0, 1>>, current_state |-> self.current_state,
   method |-> method, reductions |-> {}, sims |-> <<>>, reads |-> <<>>]

\* The outcome after a simulate call that left self._current_state as it was.
AfterSimCacheKept(a, call, r) ==
  [a EXCEPT !.raised = r.raised, !.sims = Append(@, call)]

\* The outcome after a simulate call with result r.
AfterSim(a, call, r) ==
  [a EXCEPT !.raised = r.raised, !.current_state = r.current_state,
            !.sims = Append(@, call)]

\* expectation_value += coef * expectation_term, with what oneterm gave.
AddOneTerm(a, t) ==
  LET b == [a EXCEPT !.reductions = @ \cup {"oneterm"}]
  IN CASE t.kind = "value" -> [b EXCEPT !.value = FAdd(@, t.value)]
       [] t.kind = "raised" -> [b EXCEPT !.raised = t.error]
       [] t.kind = "returned_error" -> [b EXCEPT !.raised = "TypeError"]

\* One iteration of the loop of _get_expectation_value_from_frequencies.
FrequenciesStep(self, a, term, c) ==
  LET me == [self EXCEPT !.current_state = a.current_state]
      basis_circuit == CircuitOf(measurement_basis_gates(term))
      full_circuit == IF size(basis_circuit) > 0 THEN CircuitAdd(c, basis_circuit) ELSE c
      call == SimCall(full_circuit, FALSE, NoInitialStatevector)
  IN IF Len(term) > c.width THEN {[a EXCEPT !.raised = "OperatorWidthError"]}
     ELSE IF Len(term) = 0 THEN {[a EXCEPT !.value = FAdd(@, <<1, 1>>)]}
     ELSE {IF r.raised # None THEN AfterSim(a, call, r)
           ELSE AddOneTerm(AfterSim(a, call, r),
                           get_expectation_value_from_frequencies_oneterm(term, r.frequencies))
             : r \in simulate(me, full_circuit, FALSE, NoInitialStatevector)}

RECURSIVE FrequenciesLoop(_, _, _, _)
FrequenciesLoop(self, outcomes, terms, c) ==
  IF Len(terms) = 0 THEN outcomes
  ELSE FrequenciesLoop(self,
                       UNION {IF a.raised # None THEN {a} ELSE FrequenciesStep(self, a, Head(terms), c)
                                : a \in outcomes},
                       Tail(terms), c)

get_expectation_value_from_frequencies(self, qubit_operator, c) ==
  FrequenciesLoop(self, {StartOutcome(self, "frequencies")}, qubit_operator, c)

\* One iteration of the generic loop of _get_expectation_value_from_statevector.
\* A Pauli gate on a qubit the circuit of n_qubits lacks is refused by the
\* circuit or by the backend.
StatevectorStep(self, a, term, c, prepared_frequencies, prepared_state) ==
  LET me == [self EXCEPT !.current_state = a.current_state]
      n_qubits == c.width
      initial == [kind |-> "ndarray", vec |-> prepared_state]
      pauli_circuit == Circuit([k \in 1..Len(term) |-> Gate(term[k].pauli, term[k].index)], n_qubits)
      basis_circuit == CircuitOf(measurement_basis_gates(term))
  IN IF Len(term) > n_qubits THEN {[a EXCEPT !.raised = "OperatorWidthError"]}
     ELSE IF Len(term) = 0 THEN {[a EXCEPT !.value = FAdd(@, <<1, 1>>)]}
     ELSE IF ~Truthy(self.n_shots)
     THEN IF ~InRange(term, n_qubits)
          THEN {[a EXCEPT !.raised = "BackendError", !.reductions = @ \cup {"overlap"}]}
          ELSE {IF r.raised # None THEN AfterSim(a, SimCall(pauli_circuit, TRUE, initial), r)
                ELSE [AfterSim(a, SimCall(pauli_circuit, TRUE, initial), r)
                        EXCEPT !.value = FAdd(@, Frac(Overlap(r.statevector, prepared_state),
                                                      Pow2(prepared_state.h))),
                               !.reductions = @ \cup {"overlap"}]
                  : r \in simulate(me, pauli_circuit, TRUE, initial)}
     ELSE IF size(basis_circuit) > 0
     THEN {IF r.raised # None THEN AfterSim(a, SimCall(basis_circuit, FALSE, initial), r)
           ELSE AddOneTerm(AfterSim(a, SimCall(basis_circuit, FALSE, initial), r),
                           get_expectation_value_from_frequencies_oneterm(term, r.frequencies))
             : r \in simulate(me, basis_circuit, FALSE, initial)}
     ELSE {AddOneTerm(a, get_expectation_value_from_frequencies_oneterm(term, prepared_frequencies))}

RECURSIVE StatevectorLoop(_, _, _, _, _, _)
StatevectorLoop(self, outcomes, terms, c, prepared_frequencies, prepared_state) ==
  IF Len(terms) = 0 THEN outcomes
  ELSE StatevectorLoop(self,
                       UNION {IF a.raised # None THEN {a}
                              ELSE StatevectorStep(self, a, Head(terms), c,
                                                   prepared_frequencies, prepared_state)
                                : a \in outcomes},
                       Tail(terms), c, prepared_frequencies, prepared_state)

\* _get_expectation_value_from_statevector after the state preparation r0.
\* The backends' own routines: qulacs builds an operator of n_qubits and adds
\* the terms to it (a term on a missing qubit is refused, by an exception or
\* by leaving it out, depending on the library version); projectq raises on
\* such a term.
AfterPreparation(self, qubit_operator, c, a, r0) ==
  LET n_qubits == c.width
      hazard == \E k \in 1..Len(qubit_operator) : ~InRange(qubit_operator[k], n_qubits)
  IN IF self.target = "qulacs" /\ ~Truthy(self.n_shots)
     THEN LET b == [a EXCEPT !.reductions = {"qulacs_native"}]
          \* add_operator (line 291) refuses the term before line 292 reads
          \* self._current_state: the raising outcome has read nothing
          IN {[b EXCEPT !.value = NativeExpectation(a.current_state,
                                                    SelectTerms(qubit_operator, n_qubits)),
                        !.reads = Append(@, a.current_state)]}
             \cup (IF hazard THEN {[b EXCEPT !.raised = "BackendError"]} ELSE {})
     ELSE IF self.target = "projectq" /\ ~Truthy(self.n_shots)
     THEN LET b == [a EXCEPT !.reductions = {"projectq_native"}]
          IN IF hazard THEN {[b EXCEPT !.raised = "BackendError"]}
             ELSE {[b EXCEPT !.value = NativeExpectation(r0.statevector, qubit_operator)]}
     ELSE StatevectorLoop(self, {a}, qubit_operator, c, r0.frequencies, r0.statevector)

get_expectation_value_from_statevector(self, qubit_operator, c) ==
  LET call == SimCall(c, TRUE, NoInitialStatevector)
  IN UNION {IF r0.raised # None THEN {AfterSim(StartOutcome(self, "statevector"), call, r0)}
            ELSE AfterPreparation(self, qubit_operator, c,
                                  AfterSim(StartOutcome(self, "statevector"), call, r0), r0)
              : r0 \in simulate(self, c, TRUE, NoInitialStatevector)}

\* The check of get_expectation_value on the terms of the operator.
TermTooWide(term, c) == c.width < Len(term)

\* get_expectation_value choosing the frequencies method also when a number
\* of shots is set.
get_expectation_value_shots_forced(self, qubit_operator, state_prep_circuit) ==
  IF \E k \in 1..Len(qubit_operator) : TermTooWide(qubit_operator[k], state_prep_circuit)
  THEN {[StartOutcome(self, None) EXCEPT !.raised = "OperatorWidthError"]}
  ELSE IF \/ self.noise_model # None
          \/ ~statevector_available(self)
          \/ is_mixed_state(state_prep_circuit)
          \/ size(state_prep_circuit) = 0
          \/ Truthy(self.n_shots)
  THEN get_expectation_value_from_frequencies(self, qubit_operator, state_prep_circuit)
  ELSE get_expectation_value_from_statevector(self, qubit_operator, state_prep_circuit)

\* Simulator.get_expectation_value: the outcomes a call can have.
get_expectation_value(self, qubit_operator, state_prep_circuit) ==
  IF \E k \in 1..Len(qubit_operator) : TermTooWide(qubit_operator[k], state_prep_circuit)
  THEN {[StartOutcome(self, None) EXCEPT !.raised = "OperatorWidthError"]}
  ELSE IF \/ self.noise_model # None
          \/ ~statevector_available(self)
          \/ is_mixed_state(state_prep_circuit)
          \/ size(state_prep_circuit) = 0
  THEN get_expectation_value_from_frequencies(self, qubit_operator, state_prep_circuit)
  ELSE get_expectation_value_from_statevector(self, qubit_operator, state_prep_circuit)

(***************************************************************************)
(* translate_json_ionq.                                                    *)
(***************************************************************************)
\* get_ionq_gates: the abstract name of each gate IonQ's JSON format has,
\* and its name there.
get_ionq_gates ==
  [H |-> "h", X |-> "x", Y |-> "y", Z |-> "z", S |-> "s", T |-> "t",
   RX |-> "rx", RY |-> "ry", RZ |-> "rz", CNOT |-> "cnot"]

\* The loop of translate_json_ionq from gate k on, json_gates being the
\* gates translated so far: the dictionary returned, or the gate refused.
RECURSIVE TranslateFrom(_, _, _)
TranslateFrom(source_circuit, k, json_gates) ==
  IF k > Len(source_circuit.gates)
  THEN [raised |-> None, gate |-> None,
        json |-> [qubits |-> source_circuit.width, circuit |-> json_gates]]
  ELSE LET gate == source_circuit.gates[k]
           GATE_JSON_IONQ == get_ionq_gates
       IN IF gate.name \in {"H", "X", "Y", "Z", "S", "T"}
          THEN TranslateFrom(source_circuit, k + 1,
                 Append(json_gates, [gate |-> GATE_JSON_IONQ[gate.name], target |-> gate.target]))
          ELSE IF gate.name \in {"RX", "RY", "RZ"}
          THEN TranslateFrom(source_circuit, k + 1,
                 Append(json_gates, [gate |-> GATE_JSON_IONQ[gate.name], target |-> gate.target,
                                     rotation |-> gate.parameter]))
          ELSE IF gate.name \in {"CNOT"}
          THEN TranslateFrom(source_circuit, k + 1,
                 Append(json_gates, [gate |-> GATE_JSON_IONQ[gate.name], target |-> gate.target,
                                     control |-> gate.control]))
          ELSE [raised |-> "ValueError", gate |-> gate.name,
                json |-> [qubits |-> 0, circuit |-> <<>>]]

\* A translator that leaves out the gates it does not know.
translate_json_ionq_skipping(source_circuit) ==
  TranslateFrom([source_circuit EXCEPT
                   !.gates = SelectSeq(@, LAMBDA g : g.name \in DOMAIN get_ionq_gates)],
                1, <<>>)

translate_json_ionq(source_circuit) == TranslateFrom(source_circuit, 1, <<>>)

(***************************************************************************)
(* Inputs.                                                                 *)
(***************************************************************************)
ShotValues == {NoShots} \cup 0..MaxShots

NoiseModels == {None, "noise_model"}

SeqsUpTo(S, n) == UNION {[1..k -> S] : k \in 0..n}

\* The circuits a caller builds: gates on qubits below the width.
GateNames == {"X", "MEASURE"}

Circuits ==
  UNION {{Circuit(gates, w)
            : gates \in SeqsUpTo({Gate(name, q) : name \in GateNames, q \in 0..(w - 1)}, MaxGates)}
           : w \in 0..MaxWidth}

\* initial_statevector: None, or a basis state of the circuit's width (the
\* first or the last one) given as a list or as a numpy array, or the empty
\* list, or a numpy array of one element (0 or 1).
InitialStatevectors(w) ==
  {NoInitialStatevector}
    \cup {[kind |-> kind, vec |-> OneHot(w, i)] : kind \in {"list", "ndarray"}, i \in {0, Pow2(w) - 1}}
    \cup {[kind |-> "list", vec |-> NoVector]}
    \cup {[kind |-> "ndarray", vec |-> [amps |-> <<a>>, h |-> 0]] : a \in {0, 1}}

\* Frequency tables for a direct call of the one-term estimator: the empty
\* one, and the tables over bitstrings of one length.
FrequencyValues == {<<1, 2>>, <<1, 1>>}

FrequencyTables ==
  {<<>>} \cup UNION {UNION {[K -> FrequencyValues] : K \in (SUBSET [1..n -> {0, 1}]) \ {{}}}
                      : n \in 1..MaxWidth}

\* Circuits handed to the IonQ translator: gate names of the abstract
\* vocabulary and one outside it.
AbstractGateNames == {"H", "X", "Y", "Z", "S", "T", "RX", "RY", "RZ", "CNOT", "MEASURE"}

IonqGate(name) == [name |-> name, target |-> 0, control |-> 1, parameter |-> "theta"]

IonqCircuits ==
  {[width |-> 2, gates |-> gates]
     : gates \in SeqsUpTo({IonqGate(name) : name \in AbstractGateNames \cup {"SWAP"}}, MaxGates)}

Paulis == {"X", "Z"}

\* Every term on the qubits 0..MaxWidth: a Pauli or nothing on each.
Terms ==
  {[k \in 1..Cardinality({q \in 0..MaxWidth : f[q] # None}) |->
      LET q == CHOOSE q \in 0..MaxWidth :
                 f[q] # None /\ Cardinality({p \in 0..(q - 1) : f[p] # None}) = k - 1
      IN [index |-> q, pauli |-> f[q]]]
     : f \in [0..MaxWidth -> Paulis \cup {None}]}

QubitOperators ==
  {op \in SeqsUpTo(Terms, MaxTerms) : \A i, j \in 1..Len(op) : i # j => op[i] # op[j]}

(***************************************************************************)
(* The state machine.  phase: "new" (no Simulator yet), "idle" (between    *)
(* calls), "returned" (a call has just returned or raised; lastCall holds  *)
(* its arguments and its outcome).                                         *)
(***************************************************************************)
NoSim ==
  [target |-> None, n_shots |-> NoShots, noise_model |-> None, current_state |-> NoVector,
   statevector_available |-> FALSE, statevector_order |-> None, noisy_simulation |-> FALSE]

\* The instance after lines 51-62 of __init__, before its checks.
Instance(target, n_shots, noise_model) ==
  [target |-> target, n_shots |-> n_shots, noise_model |-> noise_model,
   current_state |-> NoVector,
   statevector_available |-> backend_info[target].statevector_available,
   statevector_order |-> backend_info[target].statevector_order,
   noisy_simulation |-> backend_info[target].noisy_simulation]

NoCall == [op |-> None]

Init ==
  /\ phase = "new"
  /\ sim = NoSim
  /\ lastCall = NoCall

\* Simulator.__init__ with its two checks in the other order.
InitErrorShotsFirst(self) ==
  IF ~Truthy(self.n_shots) /\ (~statevector_available(self) \/ self.noise_model # None)
  THEN "ShotsRequiredError"
  ELSE IF self.noise_model # None /\ ~noisy_simulation(self)
  THEN "UnsupportedNoiseModelError"
  ELSE None

\* Simulator.__init__: None, or the error it raises.
InitError(self) ==
  IF self.noise_model # None /\ ~noisy_simulation(self)
  THEN "UnsupportedNoiseModelError"
  ELSE IF ~Truthy(self.n_shots) /\ (~statevector_available(self) \/ self.noise_model # None)
  THEN "ShotsRequiredError"
  ELSE None

Construct ==
  /\ phase = "new"
  /\ \E target \in Targets, n_shots \in ShotValues, noise_model \in NoiseModels :
       LET self == Instance(target, n_shots, noise_model)
       IN /\ lastCall' = [op |-> "__init__", target |-> target, n_shots |-> n_shots,
                          noise_model |-> noise_model, raised |-> InitError(self),
                          trace |-> <<>>]
          /\ sim' = IF InitError(self) = None THEN self ELSE NoSim
          /\ phase' = "returned"

\* The caller takes the outcome of the call.
Resume ==
  /\ phase = "returned"
  /\ phase' = IF sim = NoSim THEN "new" ELSE "idle"
  /\ lastCall' = NoCall
  /\ UNCHANGED sim

Simulate ==
  /\ phase = "idle"
  /\ \E c \in Circuits, return_statevector \in BOOLEAN :
       \E initial_statevector \in InitialStatevectors(c.width) :
         \E r \in simulate(sim, c, return_statevector, initial_statevector) :
           /\ lastCall' = [op |-> "simulate", circuit |-> c,
                           return_statevector |-> return_statevector,
                           initial_statevector |-> initial_statevector,
                           raised |-> r.raised, frequencies |-> r.frequencies,
                           statevector |-> r.statevector, trace |-> r.trace]
           /\ sim' = [sim EXCEPT !.current_state = r.current_state]
           /\ phase' = "returned"

GetExpectationValue ==
  /\ phase = "idle"
  /\ \E qubit_operator \in QubitOperators, c \in Circuits :
       \E r \in get_expectation_value(sim, qubit_operator, c) :
         /\ lastCall' = [op |-> "get_expectation_value", qubit_operator |-> qubit_operator,
                         circuit |-> c, raised |-> r.raised, value |-> r.value,
                         method |-> r.method, reductions |-> r.reductions, sims |-> r.sims,
                         reads |-> r.reads, cached_before |-> sim.current_state]
         /\ sim' = [sim EXCEPT !.current_state = r.current_state]
         /\ phase' = "returned"

\* Assignments to the attributes after construction: nothing validates them.
SetNShots ==
  /\ phase = "idle"
  /\ \E n \in ShotValues : sim' = [sim EXCEPT !.n_shots = n]
  /\ UNCHANGED <<phase, lastCall>>

SetNoiseModel ==
  /\ phase = "idle"
  /\ \E m \in NoiseModels : sim' = [sim EXCEPT !.noise_model = m]
  /\ UNCHANGED <<phase, lastCall>>

\* A call of the translator; it needs no Simulator.
TranslateJsonIonq ==
  /\ phase = "new"
  /\ \E c \in IonqCircuits :
       LET r == translate_json_ionq(c)
       IN lastCall' = [op |-> "translate_json_ionq", circuit |-> c, raised |-> r.raised,
                       gate |-> r.gate, json |-> r.json]
  /\ phase' = "returned"
  /\ UNCHANGED sim

NoResult == [kind |-> None, error |-> None, value |-> <<0, 1>>]

\* A direct call of the static one-term estimator.  The caller keeps the two
\* objects it passed: term_held and frequencies_held are their contents after
\* the call, term and frequencies their contents before it.
OneTerm ==
  /\ phase = "new"
  /\ \E term \in Terms, frequencies \in FrequencyTables :
       LET r == get_expectation_value_from_frequencies_oneterm(term, frequencies)
       IN lastCall' = [op |-> "oneterm", calls |-> 1,
                       term |-> term, frequencies |-> frequencies,
                       kind |-> r.kind, error |-> r.error, value |-> r.value,
                       term_held |-> r.term, frequencies_held |-> r.frequencies,
                       again |-> NoResult]
  /\ phase' = "returned"
  /\ UNCHANGED sim

\* The caller calls the estimator a second time with the objects it holds.
OneTermAgain ==
  /\ phase = "returned"
  /\ lastCall.op = "oneterm"
  /\ lastCall.calls = 1
  /\ LET r == get_expectation_value_from_frequencies_oneterm(lastCall.term_held,
                                                             lastCall.frequencies_held)
     IN lastCall' = [lastCall EXCEPT !.calls = 2,
                                     !.again = [kind |-> r.kind, error |-> r.error,
                                                value |-> r.value],
                                     !.term_held = r.term,
                                     !.frequencies_held = r.frequencies]
  /\ UNCHANGED <<phase, sim>>

Next ==
  \/ Construct
  \/ Resume
  \/ Simulate
  \/ GetExpectationValue
  \/ SetNShots
  \/ SetNoiseModel

Spec == Init /\ [][Next]_vars

\* The translator alone.
NextIonq ==
  \/ TranslateJsonIonq
  \/ Resume

SpecIonq == Init /\ [][NextIonq]_vars

\* The one-term estimator alone.
NextOneTerm ==
  \/ OneTerm
  \/ OneTermAgain
  \/ Resume

SpecOneTerm == Init /\ [][NextOneTerm]_vars

\* The state vectors handed to the normaliser: those that up to MaxGates
\* gates X and H leave on registers of 1..MaxWidth qubits.
StateVectorGates(w) ==
  SeqsUpTo({Gate(name, q) : name \in {"X", "H"}, q \in 0..(w - 1)}, MaxGates)

StateVectors ==
  UNION {UNION {ExecGates(AllZeroState(w), gates) : gates \in StateVectorGates(w)}
           : w \in 1..MaxWidth}

StatevectorOrders == {"msq_first", "lsq_first"}

\* A call of _statevector_to_frequencies on an instance of either bit order.
StatevectorToFrequencies ==
  /\ phase = "new"
  /\ \E order \in StatevectorOrders, n_shots \in ShotValues, statevector \in StateVectors :
       LET self == [Instance("qulacs", n_shots, None) EXCEPT !.statevector_order = order]
       IN \E frequencies \in statevector_to_frequencies(self, statevector) :
            lastCall' = [op |-> "_statevector_to_frequencies", statevector_order |-> order,
                         n_shots |-> n_shots, statevector |-> statevector,
                         frequencies |-> frequencies]
  /\ phase' = "returned"
  /\ UNCHANGED sim

\* A call of _statevector_to_frequencies on an instance as __init__ leaves
\* it, for each backend that gives access to the statevector.
StatevectorToFrequenciesOnBackend ==
  /\ phase = "new"
  /\ \E target \in {t \in Targets : backend_info[t].statevector_available},
        n_shots \in ShotValues, statevector \in StateVectors :
       LET self == Instance(target, n_shots, None)
       IN \E frequencies \in statevector_to_frequencies(self, statevector) :
            lastCall' = [op |-> "_statevector_to_frequencies", target |-> target,
                         statevector_order |-> statevector_order(self),
                         n_shots |-> n_shots, statevector |-> statevector,
                         frequencies |-> frequencies]
  /\ phase' = "returned"
  /\ UNCHANGED sim

\* The frequency normaliser on the instances of the backends.
NextBackendFrequencies ==
  \/ StatevectorToFrequenciesOnBackend
  \/ Resume

SpecBackendFrequencies == Init /\ [][NextBackendFrequencies]_vars

\* The frequency normaliser alone.
NextFrequencies ==
  \/ StatevectorToFrequencies
  \/ Resume

SpecFrequencies == Init /\ [][NextFrequencies]_vars

(***************************************************************************)
(* The properties.                                                         *)
(***************************************************************************)
IsCall(op) == phase = "returned" /\ lastCall.op = op

NoiseRuleApplies(call) ==
  call.noise_model # None /\ ~backend_info[call.target].noisy_simulation

ShotsRuleApplies(call) ==
  call.n_shots = NoShots
    /\ (~backend_info[call.target].statevector_available \/ call.noise_model # None)

\* C1: constructing a Simulator with a noise model on a target without noisy
\* simulation fails with the unsupported-noise-model error; otherwise, with
\* n_shots None and (no statevector or a noise model), it fails with the
\* shots-required error; the first rule wins when both apply, and a failed
\* construction makes no backend call and leaves no Simulator.
C1_ConstructionValidation ==
  IsCall("__init__") =>
    /\ NoiseRuleApplies(lastCall) => lastCall.raised = "UnsupportedNoiseModelError"
    /\ (~NoiseRuleApplies(lastCall) /\ ShotsRuleApplies(lastCall))
         => lastCall.raised = "ShotsRequiredError"
    /\ lastCall.raised # None => (lastCall.trace = <<>> /\ sim = NoSim)

C1_Witness ==
  /\ IsCall("__init__")
  /\ NoiseRuleApplies(lastCall)
  /\ ShotsRuleApplies(lastCall)
  /\ lastCall.raised = "UnsupportedNoiseModelError"

FastPathResult(call) ==
  /\ call.raised = None
  /\ call.frequencies = [k \in {Zeros(call.circuit.width)} |-> <<1, 1>>]
  /\ call.return_statevector => call.statevector = AllZeroState(call.circuit.width)
  /\ call.trace = <<>>

\* C2 as stated: for every circuit of size 0, simulate returns the
\* frequencies {"0"*width: 1.0}, with the all-zero state vector of dimension
\* 2^width if return_statevector, and invokes no backend.
C2_Original ==
  (IsCall("simulate") /\ size(lastCall.circuit) = 0) => FastPathResult(lastCall)

\* C2 as amended: for every circuit of size 0 and of width at least 1,
\* simulate returns the frequencies {"0"*width: 1.0}, with the all-zero state
\* vector of dimension 2^width if return_statevector, and invokes no backend,
\* whatever the target and n_shots; a circuit of width 0 is refused.
C2_EmptyCircuit ==
  (IsCall("simulate") /\ size(lastCall.circuit) = 0) =>
    IF lastCall.circuit.width > 0 THEN FastPathResult(lastCall)
    ELSE lastCall.raised = "EmptyCircuitWidthError" /\ lastCall.trace = <<>>

C2_Witness ==
  /\ IsCall("simulate")
  /\ size(lastCall.circuit) = 0
  /\ lastCall.circuit.width = 2
  /\ sim.target = "qdk"
  /\ sim.n_shots = 2
  /\ lastCall.return_statevector
  /\ lastCall.statevector = AllZeroState(2)

HasEvent(trace, ev) == \E k \in 1..Len(trace) : trace[k].ev = ev

\* C3: the second component of the result of simulate is a statevector only
\* if return_statevector is true, the target gives access to the amplitudes
\* and no sampling stood in for them; a target without statevector (qdk)
\* never returns one.
C3_StatevectorOnlyFromBackend ==
  (IsCall("simulate") /\ lastCall.raised = None /\ lastCall.statevector # NoVector) =>
    /\ lastCall.return_statevector
    /\ statevector_available(sim)
    /\ ~HasEvent(lastCall.trace, "sample")
    /\ ~HasEvent(lastCall.trace, "run")

OperatorBeyondWidth(call) ==
  \E k \in 1..Len(call.qubit_operator) : ~InRange(call.qubit_operator[k], call.circuit.width)

\* C4: for an operator with a term on a qubit index >= the width of the
\* state preparation circuit, get_expectation_value fails with the
\* operator-width error, before any simulation.
C4_OperatorWidthChecked ==
  (IsCall("get_expectation_value") /\ OperatorBeyondWidth(lastCall)) =>
    (lastCall.raised = "OperatorWidthError" /\ lastCall.sims = <<>>)

ConfigurationInvariant(self) ==
  /\ self.noise_model # None => noisy_simulation(self)
  /\ self.n_shots = NoShots => (statevector_available(self) /\ self.noise_model = None)

\* C5: a constructed Simulator satisfies the configuration invariant in every
\* state, also after assignments to n_shots and noise_model and after calls.
C5_ConfigurationInvariant ==
  sim # NoSim => ConfigurationInvariant(sim)

PureNonEmptyNoiseless(self, c) ==
  /\ self.noise_model = None
  /\ statevector_available(self)
  /\ ~is_mixed_state(c)
  /\ size(c) > 0

Dispatched(call) == call.method # None

\* C6 as stated: get_expectation_value uses the amplitude-based computation
\* exactly when there is no noise model, the target has a statevector, the
\* circuit is pure and not empty, and n_shots is None; in every other case it
\* uses the frequency-based computation.
C6_Original ==
  (IsCall("get_expectation_value") /\ Dispatched(lastCall)) =>
    IF PureNonEmptyNoiseless(sim, lastCall.circuit) /\ sim.n_shots = NoShots
    THEN lastCall.method = "statevector"
    ELSE lastCall.method = "frequencies"

\* C6 as amended: get_expectation_value uses the amplitude-based method
\* exactly when there is no noise model, the target has a statevector and the
\* circuit is pure and not empty, whether or not n_shots is set; there it
\* reduces the amplitudes themselves when n_shots is None or 0, and the signed
\* parities of frequencies sampled from the prepared state when n_shots is
\* positive.  In every other case it uses the frequency-based method.
C6_StrategySelection ==
  (IsCall("get_expectation_value") /\ Dispatched(lastCall)) =>
    /\ lastCall.method = IF PureNonEmptyNoiseless(sim, lastCall.circuit)
                         THEN "statevector" ELSE "frequencies"
    /\ (lastCall.method = "statevector" /\ ~Truthy(sim.n_shots))
         => lastCall.reductions \subseteq {"qulacs_native", "projectq_native", "overlap"}
    /\ (lastCall.method = "statevector" /\ Truthy(sim.n_shots))
         => lastCall.reductions \subseteq {"oneterm"}
    /\ lastCall.method = "frequencies" => lastCall.reductions \subseteq {"oneterm"}
    /\ (lastCall.raised = None /\ \E k \in 1..Len(lastCall.qubit_operator) :
                                    Len(lastCall.qubit_operator[k]) > 0)
         => lastCall.reductions # {}

C6_Witness ==
  /\ IsCall("get_expectation_value")
  /\ lastCall.method = "statevector"
  /\ sim.n_shots = 2
  /\ lastCall.reductions = {"oneterm"}
  /\ lastCall.raised = None
  /\ Len(lastCall.sims) = 2

\* The tables simulate may return for circuit c run from register v: the
\* exact one, or counts of n_shots outcomes of c run from v.
KeysFrom(self, v, c) == {LsqKey(i, c.width) : i \in Outcomes(v, c, self.noise_model # None)}

\* C7: when initial_statevector is given and simulate returns, the
\* frequencies (and the statevector, if returned) are those of the circuit
\* run from that state, for every circuit, one without gates included.
C7_InitialStateUsed ==
  (IsCall("simulate") /\ lastCall.initial_statevector.kind # None /\ lastCall.raised = None) =>
    /\ DOMAIN lastCall.frequencies
         \subseteq KeysFrom(sim, lastCall.initial_statevector.vec, lastCall.circuit)
    /\ lastCall.statevector # NoVector
         => lastCall.statevector
              \in ExecGates(lastCall.initial_statevector.vec, lastCall.circuit.gates)

\* C8: get_expectation_value_from_frequencies_oneterm raises, returning no
\* value, whenever the frequencies dictionary is empty.
C8_EmptyFrequenciesRaise ==
  (IsCall("oneterm") /\ DOMAIN lastCall.frequencies = {}) => lastCall.kind = "raised"

GateNamesOf(c) == {c.gates[k].name : k \in 1..Len(c.gates)}

RefusedWithName(call, names) ==
  /\ call.raised = "ValueError"
  /\ call.gate \in GateNamesOf(call.circuit) \ names
  /\ call.json.circuit = <<>>

\* C9 as stated: translate_json_ionq translates every circuit over H, X, Y,
\* Z, S, T, RX, RY, RZ, CNOT and MEASURE without error, and refuses a circuit
\* with a gate it cannot express by an error naming the gate, returning no
\* partial program.
C9_Original ==
  IsCall("translate_json_ionq") =>
    IF GateNamesOf(lastCall.circuit) \subseteq AbstractGateNames
    THEN lastCall.raised = None
    ELSE RefusedWithName(lastCall, AbstractGateNames)

IonqNames == {"H", "X", "Y", "Z", "S", "T", "RX", "RY", "RZ", "CNOT"}

\* C9 as amended: translate_json_ionq translates every circuit over H, X, Y,
\* Z, S, T, RX, RY, RZ and CNOT without error, one JSON gate per gate; a
\* circuit with any other gate, MEASURE included, is refused by an error
\* naming the first such gate, and no partial program is returned.
C9_IonqTranslation ==
  IsCall("translate_json_ionq") =>
    LET gates == lastCall.circuit.gates
    IN IF GateNamesOf(lastCall.circuit) \subseteq IonqNames
       THEN /\ lastCall.raised = None
            /\ lastCall.json.qubits = lastCall.circuit.width
            /\ Len(lastCall.json.circuit) = Len(gates)
            /\ \A k \in 1..Len(gates) :
                 lastCall.json.circuit[k].target = gates[k].target
       ELSE /\ RefusedWithName(lastCall, IonqNames)
            /\ \E k \in 1..Len(gates) :
                 /\ gates[k].name = lastCall.gate
                 /\ \A j \in 1..(k - 1) : gates[j].name \in IonqNames

C9_Witness ==
  /\ IsCall("translate_json_ionq")
  /\ Len(lastCall.circuit.gates) = 2
  /\ lastCall.circuit.gates[1].name = "H"
  /\ lastCall.circuit.gates[2].name = "MEASURE"
  /\ lastCall.raised = "ValueError"
  /\ lastCall.gate = "MEASURE"

\* The register the adapter starts from, and the events after its start.
InitialRegister(call) ==
  IF call.initial_statevector.kind = None THEN AllZeroState(call.circuit.width)
  ELSE call.initial_statevector.vec

Body(call) ==
  SubSeq(call.trace, IF call.initial_statevector.kind = None THEN 2 ELSE 3, Len(call.trace))

CountEvents(trace, ev) == Cardinality({k \in 1..Len(trace) : trace[k].ev = ev})

\* C10: on the general path of simulate for qulacs and projectq, a mixed-state
\* circuit or a noise model gives exactly n_shots repetitions, each executing
\* the circuit, drawing one sample and resetting the register to the initial
\* state, and frequencies count/n_shots over these samples; otherwise the
\* circuit is executed once, no sample is drawn and the amplitudes are read.
C10_AdapterRepetitions ==
  (/\ IsCall("simulate")
   /\ sim.target \in {"qulacs", "projectq"}
   /\ lastCall.circuit.width > 0
   /\ size(lastCall.circuit) > 0
   /\ lastCall.raised # "MixedStateRequiresShotsError") =>
    LET body == Body(lastCall)
    IN IF is_mixed_state(lastCall.circuit) \/ sim.noise_model # None
       THEN /\ lastCall.raised = None
            /\ Len(body) = 3 * sim.n_shots
            /\ \A k \in 1..Len(body) :
                 /\ body[k].ev = (CASE k % 3 = 1 -> "exec" [] k % 3 = 2 -> "sample" [] OTHER -> "reset")
                 /\ k % 3 = 0 => body[k].reg = InitialRegister(lastCall)
            /\ \A key \in DOMAIN lastCall.frequencies :
                 lastCall.frequencies[key][2] * Cardinality(
                     {k \in 1..Len(body) : body[k].ev = "sample"
                                           /\ LsqKey(SetMax(Support(body[k].reg)), lastCall.circuit.width) = key})
                   = lastCall.frequencies[key][1] * sim.n_shots
       ELSE /\ lastCall.raised = None
            /\ CountEvents(body, "exec") = 1
            /\ CountEvents(body, "sample") = 0
            /\ CountEvents(body, "read") >= 1

\* The canonical key of basis index i on n qubits: the zero-padded binary
\* string, reversed iff the order is msq_first (then qubit 0 comes first).
CanonicalKey(order, i, n) ==
  IF order = "msq_first" THEN LsqKey(i, n) ELSE Reverse(LsqKey(i, n))

Retained(v) == {i \in Indices(NQubits(v)) : v.amps[i + 1] # 0}

ExactKeys(call) ==
  {CanonicalKey(call.statevector_order, i, NQubits(call.statevector))
     : i \in Retained(call.statevector)}

\* C11: with n_shots None, _statevector_to_frequencies returns exactly one
\* entry per basis index whose probability reaches the threshold and none for
\* another index; the key of index i is its zero-padded binary string,
\* reversed iff the order is msq_first, and the value is |amplitude_i|^2.
C11_ExactTable ==
  (IsCall("_statevector_to_frequencies") /\ lastCall.n_shots = NoShots) =>
    LET v == lastCall.statevector
        n == NQubits(v)
        f == lastCall.frequencies
    IN /\ DOMAIN f = ExactKeys(lastCall)
       /\ Cardinality(DOMAIN f) = Cardinality(Retained(v))
       /\ \A i \in Retained(v) :
            f[CanonicalKey(lastCall.statevector_order, i, n)]
              = Frac(v.amps[i + 1] * v.amps[i + 1], Pow2(v.h))
       /\ \A i \in Indices(n) \ Retained(v) :
            CanonicalKey(lastCall.statevector_order, i, n) \notin DOMAIN f

C11_Witness ==
  /\ IsCall("_statevector_to_frequencies")
  /\ lastCall.n_shots = NoShots
  /\ lastCall.statevector_order = "msq_first"
  /\ lastCall.statevector = [amps |-> <<0, 1, 0, 1>>, h |-> 1]
  /\ lastCall.frequencies = (<<1, 0>> :> <<1, 2>>) @@ (<<1, 1>> :> <<1, 2>>)

\* The number of samples behind a frequency num/den of n_shots shots.
CountOf(frequency, n_shots) == (frequency[1] * n_shots) \div frequency[2]

SharedOnes(term, bitstring) ==
  Cardinality({i \in TermIndices(term) : bitstring[i + 1] = 1})

WithParity(term, frequencies, parity) ==
  {k \in DOMAIN frequencies : SharedOnes(term, k) % 2 = parity}

\* C13: for a term and a non-empty frequencies table over bitstrings of one
\* length n, every qubit index of the term below n, the one-term estimator
\* returns the sum of the frequencies of the bitstrings of even parity minus
\* the sum of those of odd parity (parity of the positions that are 1 both in
\* the term's mask and in the bitstring); after the call, and after a second
\* call, the caller's term and frequencies are what they were before, and
\* the second call returns the same scalar.
C13_SignedParitySum ==
  (/\ IsCall("oneterm")
   /\ DOMAIN lastCall.frequencies # {}
   /\ \A k \in DOMAIN lastCall.frequencies :
        \A i \in TermIndices(lastCall.term) : i < Len(k)) =>
    /\ lastCall.kind = "value"
    /\ lastCall.value
         = FAdd(SumOver(lastCall.frequencies, WithParity(lastCall.term, lastCall.frequencies, 0)),
                FNeg(SumOver(lastCall.frequencies, WithParity(lastCall.term, lastCall.frequencies, 1))))
    /\ lastCall.term_held = lastCall.term
    /\ lastCall.frequencies_held = lastCall.frequencies
    /\ lastCall.calls = 2 => (lastCall.again.kind = "value"
                                /\ lastCall.again.value = lastCall.value)

C13_Witness ==
  /\ IsCall("oneterm")
  /\ lastCall.calls = 2
  /\ lastCall.term = <<[index |-> 0, pauli |-> "Z"]>>
  /\ lastCall.frequencies = (<<0, 1>> :> <<1, 2>>) @@ (<<1, 1>> :> <<1, 2>>)
  /\ lastCall.frequencies_held = lastCall.frequencies
  /\ lastCall.kind = "value"
  /\ lastCall.value = <<0, 1>>
  /\ lastCall.again.value = <<0, 1>>

\* The state that simulating circuit c from the all-zero register prepares.
PreparedStates(c) == ExecGates(AllZeroState(c.width), c.gates)

\* C14: after any sequence of simulate and get_expectation_value calls,
\* every state the expectation-value engine reads from self._current_state
\* is the one prepared by simulating the state_prep_circuit of the same call,
\* never one cached by an earlier call.
C14_CacheIsFresh ==
  IsCall("get_expectation_value") =>
    \A k \in 1..Len(lastCall.reads) : lastCall.reads[k] \in PreparedStates(lastCall.circuit)

C14_Witness ==
  /\ IsCall("get_expectation_value")
  /\ Len(lastCall.reads) = 1
  /\ lastCall.cached_before # NoVector
  /\ lastCall.cached_before \notin PreparedStates(lastCall.circuit)
  /\ lastCall.reads[1] \in PreparedStates(lastCall.circuit)
  /\ lastCall.raised = None
====
